---- MODULE Spec2Model ----
(***************************************************************************)
(* State-machine model of src/src/App.tsx: the preference flow (Home,      *)
(* Choose, Result, Recommend, Saved, Log), the history log with its        *)
(* localStorage slot, the long-press timers and the geolocation request.   *)
(*                                                                         *)
(* Conventions. Numbers in [0,1] are kept in hundredths (richness 0.5 is   *)
(* 50); warmth is kept in ten-thousandths. JavaScript null is NULL. The    *)
(* Chinese string literals of the source are written in ASCII, each with   *)
(* the source line of the literal it stands for.                           *)
(***************************************************************************)
EXTENDS Integers, Sequences, FiniteSets, TLC

VARIABLES
    phase,          \* "boot" before the first render, "running", or "crashed" once a render threw
    screen,         \* useState<Screen>, line 471
    chooseStep,     \* line 472
    temp,           \* line 475
    form,           \* line 476
    richness,       \* line 477, in hundredths
    speed,          \* line 478
    pressing,       \* line 481
    pressTimer,     \* line 480: TRUE while the Home long-press timeout is armed
    tRef,           \* line 230: TRUE while the Result long-press button's timeout is armed
    longPressedRef, \* line 231
    orphanTimers,   \* timeouts of unmounted Result long-press buttons, still to fire
    geoStatus,      \* line 482, a sequence of text pieces (empty = "")
    log,            \* line 154: the in-memory log, a JavaScript value
    slot,           \* localStorage[LS_KEY]
    pending,        \* geolocation requests in flight, each with what its callbacks closed over
    opened,         \* the URLs the handler that ran last handed to window.open
    now,            \* the value Date.now() returned when it was last read
    lastEvent,      \* the handler that ran last: its name, whether its write succeeded, where it ran from
    returned        \* what the pure function applied last returned, with the function's name

vars == <<phase, screen, chooseStep, temp, form, richness, speed, pressing, pressTimer,
          tRef, longPressedRef, orphanTimers, geoStatus, log, slot, pending, opened,
          now, lastEvent, returned>>

----------------------------------------------------------------------------
(* Bounds of the model *)

MaxLog == 2
MaxPending == 2
MaxClock == 1
MaxOrphans == 1

\* What the user picks on the Choose screen (line 721-805); the slider has range 0..1
\* and step 0.01.
TempInputs == {"hot"}
FormInputs == {"soup"}
SpeedInputs == {"fast"}
SliderInputs == {55}
\* The four Math.random() results of one randomizeAll call, in hundredths (each is a
\* number in [0,1)).
RandomizeDraws == {<<99, 99, 99, 55>>}
\* The three Math.random() results of one buildMapsQuery call.
QueryDraws == {<<99, 99, 0>>}
\* The candidate cards the user clicks, by position in a list of n.
CardClicks(n) == {1}
\* Positions the geolocation success callback reports, <<latitude, longitude>>.
Positions == {<<25, 121>>}
\* GeolocationPositionError codes: 1 PERMISSION_DENIED, 2 POSITION_UNAVAILABLE, 3 TIMEOUT.
ErrorCodes == {1, 2}
\* By how much the clock has advanced when Date.now() is read again.
ClockSteps == {0, 1}
\* The arguments the pure functions are applied to: every preference, richness in
\* hundredths.
TempArgs == {"null", "hot", "cold"}
FormArgs == {"null", "soup", "dry"}
SpeedArgs == {"null", "fast", "sit"}
RichnessArgs == 0..100
\* Math.random() results for the two picks and for the second-pick test of
\* buildMapsQuery: every index of a pool of up to seven keywords, both sides of 0.55.
\* What the user may pick and the slider values on both sides of the style threshold;
\* Math.random() results on both sides of each threshold of randomizeAll.
TempChoices == {"hot", "cold"}
FormChoices == {"soup", "dry"}
SliderChoices == {54, 55}
RandomizeChoices == {<<a, b, 99, c>> : a \in {50, 51}, b \in {50, 51}, c \in {54, 55}}
PickDraws == {0, 15, 29, 43, 58, 72, 86, 99}
SecondPickDraws == {55, 56}

----------------------------------------------------------------------------
(* Types and constants of the program *)

NULL == "null"

totalChooseSteps == 3
DefaultRichness == 50
StyleThreshold == 55
SecondPickThreshold == 55
MaxPlaces == 8
Zoom == 15

Screens == {"home", "choose", "state", "recommend", "energy", "log"}

\* Tag labels (line 88-91): "hot food", "cold food", "soupy", "dry", "rich", "light",
\* "quick", "sit down".
TagHot == "hot food"
TagCold == "cold food"
TagSoup == "soupy"
TagDry == "dry"
TagRich == "rich taste"
TagLight == "light taste"
TagFast == "quick"
TagSit == "sit down"

\* The placeholder description of a go-out decision (line 514).
GoOutText == "(going out to eat nearby)"

mockPlaces ==
    << [id |-> "p1", name |-> "warm soup noodle house", type |-> "hot", style |-> "light",
        form |-> "soup", speed |-> "sit", price |-> "budget"],
       [id |-> "p2", name |-> "seared rice bowl", type |-> "hot", style |-> "rich",
        form |-> "dry", speed |-> "fast", price |-> "mid"],
       [id |-> "p3", name |-> "fresh salad bowl", type |-> "cold", style |-> "light",
        form |-> "dry", speed |-> "fast", price |-> "mid"],
       [id |-> "p4", name |-> "spicy hotpot stall", type |-> "hot", style |-> "rich",
        form |-> "soup", speed |-> "sit", price |-> "mid"],
       [id |-> "p5", name |-> "curry rice specialist", type |-> "hot", style |-> "rich",
        form |-> "dry", speed |-> "sit", price |-> "mid"],
       [id |-> "p6", name |-> "quick bento", type |-> "hot", style |-> "light",
        form |-> "dry", speed |-> "fast", price |-> "budget"],
       [id |-> "p7", name |-> "japanese udon", type |-> "hot", style |-> "light",
        form |-> "soup", speed |-> "fast", price |-> "mid"],
       [id |-> "p8", name |-> "cold noodles", type |-> "cold", style |-> "light",
        form |-> "dry", speed |-> "fast", price |-> "budget"] >>

PlaceNames == {mockPlaces[i].name : i \in 1..Len(mockPlaces)}

----------------------------------------------------------------------------
(* Pure functions *)

Min(a, b) == IF a < b THEN a ELSE b
Max(a, b) == IF a > b THEN a ELSE b

clamp(n, a, b) == Min(b, Max(a, n))

\* A faulty computeTags whose style is rich only above the threshold.
computeTagsAbove(t, f, r, sp) ==
    LET style == IF r > StyleThreshold THEN "rich" ELSE "light"
        t1 == IF t # NULL THEN << IF t = "hot" THEN TagHot ELSE TagCold >> ELSE << >>
        t2 == IF f # NULL THEN << IF f = "soup" THEN TagSoup ELSE TagDry >> ELSE << >>
        t3 == << IF style = "rich" THEN TagRich ELSE TagLight >>
        t4 == IF sp # NULL THEN << IF sp = "fast" THEN TagFast ELSE TagSit >> ELSE << >>
    IN  [tags |-> t1 \o t2 \o t3 \o t4, style |-> style]

computeTags(t, f, r, sp) ==
    LET style == IF r >= StyleThreshold THEN "rich" ELSE "light"
        t1 == IF t # NULL THEN << IF t = "hot" THEN TagHot ELSE TagCold >> ELSE << >>
        t2 == IF f # NULL THEN << IF f = "soup" THEN TagSoup ELSE TagDry >> ELSE << >>
        t3 == << IF style = "rich" THEN TagRich ELSE TagLight >>
        t4 == IF sp # NULL THEN << IF sp = "fast" THEN TagFast ELSE TagSit >> ELSE << >>
    IN  [tags |-> t1 \o t2 \o t3 \o t4, style |-> style]

\* A faulty filterPlaces without the fallback.
filterPlacesStrict(t, f, sp, style) ==
    LET match(p) == /\ (t # NULL => p.type = t)
                    /\ (f # NULL => p.form = f)
                    /\ (sp # NULL => p.speed = sp)
                    /\ p.style = style
    IN  SelectSeq(mockPlaces, match)

filterPlaces(t, f, sp, style) ==
    LET byTemp(p) == IF t # NULL THEN p.type = t ELSE TRUE
        byForm(p) == IF f # NULL THEN p.form = f ELSE TRUE
        bySpeed(p) == IF sp # NULL THEN p.speed = sp ELSE TRUE
        byStyle(p) == p.style = style
        candidates == SelectSeq(SelectSeq(SelectSeq(SelectSeq(mockPlaces, byTemp), byForm),
                                          bySpeed), byStyle)
        fallback == SelectSeq(mockPlaces, byTemp)
        chosen == IF Len(candidates) # 0 THEN candidates ELSE fallback
        sliced == SubSeq(chosen, 1, Min(MaxPlaces, Len(chosen)))
    IN  [idx \in 1..Len(sliced) |->
            [id |-> sliced[idx].id, name |-> sliced[idx].name, type |-> sliced[idx].type,
             style |-> sliced[idx].style, form |-> sliced[idx].form,
             speed |-> sliced[idx].speed, price |-> sliced[idx].price,
             distance |-> idx * 4]]          \* (idx + 1) * 0.4 km, idx from 0, in tenths

includes(s, x) == \E i \in 1..Len(s) : s[i] = x

\* arr[Math.floor(Math.random() * arr.length)] with the draw r in hundredths (line 140).
pick(arr, r) == arr[((r * Len(arr)) \div 100) + 1]

\* A faulty keyword pool without the combination of cold food.
queryPoolNoCold(tags) ==
    LET hasHot == includes(tags, TagHot)
        hasSoup == includes(tags, TagSoup)
        hasDry == includes(tags, TagDry)
        hasRich == includes(tags, TagRich)
        hasLight == includes(tags, TagLight)
        p1 == IF hasRich /\ hasSoup /\ hasHot
              THEN <<"spicy hotpot", "beef noodles", "ramen", "hot and sour soup">> ELSE << >>
        p2 == IF hasLight /\ hasSoup /\ hasHot
              THEN <<"clear soup noodles", "congee", "miso soup", "udon">> ELSE << >>
        p3 == IF hasRich /\ hasDry /\ hasHot
              THEN <<"braised pork rice", "curry rice", "rice bowl", "fried chicken">> ELSE << >>
        p4 == IF hasLight /\ hasDry
              THEN <<"salad", "healthy lunch box", "pho", "cold noodles dish">> ELSE << >>
        pool == p1 \o p2 \o p3 \o p4
    IN  IF Len(pool) = 0 THEN <<"restaurant", "snacks", "bento", "noodles">> ELSE pool

\* The keyword pool of buildMapsQuery (line 121-137).
queryPool(tags) ==
    LET hasHot == includes(tags, TagHot)
        hasCold == includes(tags, TagCold)
        hasSoup == includes(tags, TagSoup)
        hasDry == includes(tags, TagDry)
        hasRich == includes(tags, TagRich)
        hasLight == includes(tags, TagLight)
        p1 == IF hasRich /\ hasSoup /\ hasHot
              THEN <<"spicy hotpot", "beef noodles", "ramen", "hot and sour soup">> ELSE << >>
        p2 == IF hasLight /\ hasSoup /\ hasHot
              THEN <<"clear soup noodles", "congee", "miso soup", "udon">> ELSE << >>
        p3 == IF hasRich /\ hasDry /\ hasHot
              THEN <<"braised pork rice", "curry rice", "rice bowl", "fried chicken">> ELSE << >>
        p4 == IF hasLight /\ hasDry
              THEN <<"salad", "healthy lunch box", "pho", "cold noodles dish">> ELSE << >>
        p5 == IF hasCold THEN <<"salad", "cold noodles dish", "sashimi">> ELSE << >>
        pool == p1 \o p2 \o p3 \o p4 \o p5
    IN  IF Len(pool) = 0 THEN <<"restaurant", "snacks", "bento", "noodles">> ELSE pool

\* A faulty de-duplication that keeps every element.
keepAll(arr) == arr

\* Array.from(new Set(arr)) (line 143): the elements in order, each at its first
\* occurrence only.
uniq(arr) ==
    LET F[i \in 0..Len(arr)] ==
            IF i = 0 THEN << >>
            ELSE IF includes(F[i - 1], arr[i]) THEN F[i - 1] ELSE Append(F[i - 1], arr[i])
    IN  F[Len(arr)]

\* arr.join(sep) (line 144). A string built from pieces is the sequence of the pieces.
join(arr, sep) ==
    LET F[i \in 0..Len(arr)] ==
            IF i = 0 THEN << >>
            ELSE IF i = 1 THEN <<arr[1]>> ELSE F[i - 1] \o <<sep, arr[i]>>
    IN  F[Len(arr)]

\* buildMapsQuery (line 118-145) with its three Math.random() draws r1, r2, r3.
buildMapsQuery(tags, r1, r2, r3) ==
    LET pool == queryPool(tags)
        a == pick(pool, r1)
        b == IF r2 > SecondPickThreshold THEN pick(pool, r3) ELSE ""
        kept == SelectSeq(<<a, b>>, LAMBDA k : k # "")
    IN  join(uniq(kept), " ")

encodeURIComponent(query) == <<"uri">> \o query

MapsSearchBase == "https://www.google.com/maps/search/"

buildMapsSearchUrl(lat, lng, query) ==
    [base |-> MapsSearchBase, q |-> encodeURIComponent(query), anchor |-> <<lat, lng, Zoom>>]

\* A faulty coordinate-less URL that carries an anchor all the same.
anchoredSearchUrl(query) ==
    [base |-> MapsSearchBase, q |-> encodeURIComponent(query), anchor |-> <<0, 0, Zoom>>]

\* The coordinate-less URL of line 503 and 520.
plainSearchUrl(query) ==
    [base |-> MapsSearchBase, q |-> encodeURIComponent(query), anchor |-> << >>]

----------------------------------------------------------------------------
(* JavaScript values held by the log state and the storage slot *)

JsArray(items) == [type |-> "array", items |-> items]
JsNull == [type |-> "null", items |-> << >>]
\* Any parsed value that is neither null nor an array (an object, a number, a boolean).
JsObject == [type |-> "object", items |-> << >>]

\* An array element that is no LogEntry (a number in the stored array).
JunkItem == [junk |-> TRUE]

SlotAbsent == [kind |-> "absent", value |-> JsArray(<< >>)]
SlotEmpty == [kind |-> "empty", value |-> JsArray(<< >>)]
SlotGarbage == [kind |-> "garbage", value |-> JsArray(<< >>)]

JsonStringify(v) == [kind |-> "json", value |-> v]

\* warmth of line 605, in ten-thousandths: clamp(0.35 + richness * 0.65, 0, 1).
warmthOf(r) == clamp(3500 + r * 65, 0, 10000)

\* A faulty makeEntry that records the go-out placeholder whatever was chosen.
makeEntryPlaceholder(choiceText, clock, c) ==
    [id |-> <<"e_", clock>>,
     at |-> clock,
     tags |-> c.tags,
     choiceText |-> GoOutText,
     sig |-> [warmth |-> warmthOf(c.richness), mode |-> "satisfied", temp |-> c.temp,
              form |-> c.form, speed |-> c.speed, richness |-> c.richness]]

\* The entry saveEnergy builds (line 599-612) from the values its closure holds.
makeEntry(choiceText, clock, c) ==
    [id |-> <<"e_", clock>>,
     at |-> clock,
     tags |-> c.tags,
     choiceText |-> choiceText,
     sig |-> [warmth |-> warmthOf(c.richness), mode |-> "satisfied", temp |-> c.temp,
              form |-> c.form, speed |-> c.speed, richness |-> c.richness]]

\* A faulty closure whose tags are derived at the default richness.
closureDefaultTags(t, f, r, sp) ==
    [temp |-> t, form |-> f, richness |-> r, speed |-> sp,
     tags |-> computeTags(t, f, DefaultRichness, sp).tags]

\* What a render's closures hold: the preference and the tags derived from it.
closure(t, f, r, sp) ==
    [temp |-> t, form |-> f, richness |-> r, speed |-> sp, tags |-> computeTags(t, f, r, sp).tags]

\* An entry an earlier session left in the slot.
OldEntry == makeEntry("seared rice bowl", -1, closure("hot", "dry", 99, "fast"))

\* The useState initializer of line 154-161. readOk is FALSE when reading localStorage throws.
loadLog(s, readOk) ==
    IF ~readOk THEN JsArray(<< >>)
    ELSE IF s.kind \in {"absent", "empty"} THEN JsArray(<< >>)
    ELSE IF s.kind = "garbage" THEN JsArray(<< >>)
    ELSE s.value

\* A faulty write effect that merges the log into what the slot held.
persistMerged(l, s, writeOk) ==
    IF writeOk THEN JsonStringify(JsArray(l.items \o s.value.items)) ELSE s

\* The effect of line 163-169: the slot after the write, which may throw and be ignored.
persistLog(l, s, writeOk) == IF writeOk THEN JsonStringify(l) ELSE s

\* A faulty updater that puts the new entry last.
appendLast(entry, prev) == JsArray(prev.items \o <<entry>>)

\* The updater of line 613, (prev) => [entry, ...prev]; spreading a non-array throws.
prependThrows(prev) == prev.type # "array"
prepend(entry, prev) == JsArray(<<entry>> \o prev.items)

\* log.length > 0 of line 641.
showLog(l) == l.type = "array" /\ Len(l.items) > 0

\* Whether rendering App throws: log.length on null (line 641), log.map on a
\* non-array (line 1000-1017).
renderThrows(l, s) == l.type = "null" \/ (s = "log" /\ l.type # "array")

showBack(s) == s # "home" /\ s # "state"

----------------------------------------------------------------------------
(* Initial state: the useState initial values of line 471-482, before the first render *)

\* Slot contents this program leaves behind (it only ever writes a stringified array,
\* line 165), or no slot at all.
SessionSlots == {SlotAbsent, JsonStringify(JsArray(<<OldEntry>>))}

\* Slot contents of any origin: text that does not parse, the empty string, and parseable
\* JSON that is no array of LogEntry records.
ForeignSlots ==
    {SlotEmpty, SlotGarbage, JsonStringify(JsNull), JsonStringify(JsObject),
     JsonStringify(JsArray(<<JunkItem>>))}

InitWith(slots) ==
    /\ phase = "boot"
    /\ screen = "home"
    /\ chooseStep = 0
    /\ temp = NULL
    /\ form = NULL
    /\ richness = DefaultRichness
    /\ speed = NULL
    /\ pressing = FALSE
    /\ pressTimer = FALSE
    /\ tRef = FALSE
    /\ longPressedRef = FALSE
    /\ orphanTimers = 0
    /\ geoStatus = << >>
    /\ log = JsArray(<< >>)
    /\ slot \in slots
    /\ pending = << >>
    /\ opened = << >>
    /\ now = 0
    /\ lastEvent = [name |-> "none", ok |-> TRUE, screen |-> "home", temp |-> NULL]
    /\ returned = [fn |-> "none", value |-> << >>]

Init == InitWith(SessionSlots)

InitAnySlot == InitWith(SessionSlots \cup ForeignSlots)

----------------------------------------------------------------------------
(* Pieces shared by the handlers *)

prefVars == <<temp, form, richness, speed>>
buttonVars == <<tRef, longPressedRef, orphanTimers>>
geoVars == <<geoStatus, pending>>
logVars == <<log, slot>>

Running == phase = "running"

\* The record of the handler that runs: its name, whether its localStorage write
\* succeeded (TRUE when it writes nothing), and the screen and temperature it ran from.
Ran(name, ok) == lastEvent' = [name |-> name, ok |-> ok, screen |-> screen, temp |-> temp]

\* A handler that opens no map and writes no slot.
Event(name) == Ran(name, TRUE) /\ opened' = << >>

\* The render after a handler: it throws, and React unmounts the tree, when the log
\* cannot be rendered.
Commit == phase' = IF renderThrows(log', screen') THEN "crashed" ELSE "running"

\* The Result screen's long-press PrimaryButton (line 856-866) is unmounted when the
\* screen leaves "state"; its refs go with it, a timeout it armed stays scheduled
\* (clear() of line 233 runs only from up() and from the timeout itself).
ResultButton ==
    IF screen = "state" /\ screen' # "state"
    THEN /\ tRef' = FALSE
         /\ longPressedRef' = FALSE
         /\ orphanTimers' = orphanTimers + (IF tRef THEN 1 ELSE 0)
    ELSE UNCHANGED buttonVars

\* A faulty resetFlow that forgets the preference.
resetStepOnly ==
    /\ chooseStep' = 0
    /\ pressing' = FALSE
    /\ pressTimer' = FALSE
    /\ UNCHANGED <<temp, form, richness, speed>>

resetFlow ==
    /\ chooseStep' = 0
    /\ temp' = NULL
    /\ form' = NULL
    /\ richness' = DefaultRichness
    /\ speed' = NULL
    /\ pressing' = FALSE
    /\ pressTimer' = FALSE

goHome ==
    /\ resetFlow
    /\ screen' = "home"

\* A faulty randomizeAll that draws the temperature only.
randomizeTempOnly(r) ==
    /\ temp' = IF r[1] > 50 THEN "hot" ELSE "cold"
    /\ UNCHANGED <<form, richness, speed>>

\* randomizeAll (line 568-577) with its four Math.random() results r.
randomizeAll(r) ==
    /\ temp' = IF r[1] > 50 THEN "hot" ELSE "cold"
    /\ form' = IF r[2] > 50 THEN "soup" ELSE "dry"
    /\ speed' = IF r[3] > 50 THEN "fast" ELSE "sit"
    /\ richness' = r[4]

\* A faulty Choose screen whose "next" button is never disabled.
nextNeverDisabled == FALSE

\* A faulty Choose screen whose "next" button looks at the temperature at every step.
nextDisabledOnTemp == temp = NULL

\* disabled={!temp} / {!form} / {!speed} of the Choose screen's PrimaryButton
\* (line 728, 744, 810).
nextDisabled ==
    CASE chooseStep = 0 -> temp = NULL
      [] chooseStep = 1 -> form = NULL
      [] OTHER -> speed = NULL

nextChoose ==
    IF chooseStep < totalChooseSteps - 1
    THEN chooseStep' = chooseStep + 1 /\ screen' = screen
    ELSE chooseStep' = chooseStep /\ screen' = "state"

----------------------------------------------------------------------------
(* Startup *)

\* The first render: the useState initializer reads the slot (line 154-161), App
\* renders, and the effect of line 163-169 writes the log back.
\* readOk is FALSE when reading localStorage throws, writeOk when writing it does.
Mount(readOk, writeOk) ==
    /\ phase = "boot"
    /\ log' = loadLog(slot, readOk)
    /\ slot' = IF renderThrows(log', screen) THEN slot ELSE persistLog(log', slot, writeOk)
    /\ Ran("mount", writeOk)
    /\ opened' = << >>
    /\ UNCHANGED <<screen, chooseStep, prefVars, pressing, pressTimer, buttonVars,
                   geoVars, now, returned>>
    /\ Commit

----------------------------------------------------------------------------
(* Top bar (line 641) *)

OpenLog ==
    /\ Running
    /\ showLog(log)
    /\ screen' = "log"
    /\ ResultButton
    /\ Event("openLog")
    /\ UNCHANGED <<chooseStep, prefVars, pressing, pressTimer, geoVars, logVars, now, returned>>
    /\ Commit

goBack ==
    /\ Running
    /\ showBack(screen)
    /\ IF screen = "choose"
       THEN IF chooseStep = 0
            THEN goHome
            ELSE /\ chooseStep' = chooseStep - 1
                 /\ UNCHANGED <<screen, prefVars, pressing, pressTimer>>
       ELSE IF screen = "recommend"
            THEN screen' = "state" /\ UNCHANGED <<chooseStep, prefVars, pressing, pressTimer>>
       ELSE IF screen = "energy"
            THEN screen' = "recommend" /\ UNCHANGED <<chooseStep, prefVars, pressing, pressTimer>>
       ELSE goHome
    /\ ResultButton
    /\ Event("goBack")
    /\ UNCHANGED <<geoVars, logVars, now, returned>>
    /\ Commit

----------------------------------------------------------------------------
(* Home screen (line 652-701) *)

startDecision ==
    /\ Running
    /\ screen = "home"
    /\ resetFlow
    /\ screen' = "choose"
    /\ Event("startDecision")
    /\ UNCHANGED <<buttonVars, geoVars, logVars, now, returned>>
    /\ Commit

handlePressDown ==
    /\ Running
    /\ screen = "home"
    /\ pressing' = TRUE
    /\ pressTimer' = TRUE
    /\ Event("handlePressDown")
    /\ UNCHANGED <<screen, chooseStep, prefVars, buttonVars, geoVars, logVars, now, returned>>
    /\ Commit

handlePressUp ==
    /\ Running
    /\ screen = "home"
    /\ pressing' = FALSE
    /\ pressTimer' = FALSE
    /\ Event("handlePressUp")
    /\ UNCHANGED <<screen, chooseStep, prefVars, buttonVars, geoVars, logVars, now, returned>>
    /\ Commit

\* The timeout armed by handlePressDown fires (line 582-587), whatever the screen is by then.
PressTimerFire(r) ==
    /\ Running
    /\ pressTimer
    /\ randomizeAll(r)
    /\ pressing' = FALSE
    /\ pressTimer' = FALSE
    /\ screen' = "state"
    /\ Event("pressTimerFire")
    /\ UNCHANGED <<chooseStep, buttonVars, geoVars, logVars, now, returned>>
    /\ Commit

----------------------------------------------------------------------------
(* Choose screen (line 703-818) *)

setTemp(t) ==
    /\ Running
    /\ screen = "choose" /\ chooseStep = 0
    /\ temp' = t
    /\ Event("setTemp")
    /\ UNCHANGED <<screen, chooseStep, form, richness, speed, pressing, pressTimer,
                   buttonVars, geoVars, logVars, now, returned>>
    /\ Commit

setForm(f) ==
    /\ Running
    /\ screen = "choose" /\ chooseStep = 1
    /\ form' = f
    /\ Event("setForm")
    /\ UNCHANGED <<screen, chooseStep, temp, richness, speed, pressing, pressTimer,
                   buttonVars, geoVars, logVars, now, returned>>
    /\ Commit

setRichness(r) ==
    /\ Running
    /\ screen = "choose" /\ chooseStep = 2
    /\ richness' = r
    /\ Event("setRichness")
    /\ UNCHANGED <<screen, chooseStep, temp, form, speed, pressing, pressTimer,
                   buttonVars, geoVars, logVars, now, returned>>
    /\ Commit

setSpeed(sp) ==
    /\ Running
    /\ screen = "choose" /\ chooseStep = 2
    /\ speed' = sp
    /\ Event("setSpeed")
    /\ UNCHANGED <<screen, chooseStep, temp, form, richness, pressing, pressTimer,
                   buttonVars, geoVars, logVars, now, returned>>
    /\ Commit

\* A click on the Choose screen's "next" PrimaryButton: onClick of line 257-262 with
\* onClick = nextChoose.
ClickNext ==
    /\ Running
    /\ screen = "choose"
    /\ IF nextDisabled THEN UNCHANGED <<screen, chooseStep>> ELSE nextChoose
    /\ Event("clickNext")
    /\ UNCHANGED <<prefVars, pressing, pressTimer, buttonVars, geoVars, logVars, now, returned>>
    /\ Commit

----------------------------------------------------------------------------
(* Result screen (line 820-869) *)

ShowNearby ==
    /\ Running
    /\ screen = "state"
    /\ screen' = "recommend"
    /\ ResultButton
    /\ Event("showNearby")
    /\ UNCHANGED <<chooseStep, prefVars, pressing, pressTimer, geoVars, logVars, now, returned>>
    /\ Commit

Reconsider ==
    /\ Running
    /\ screen = "state"
    /\ chooseStep' = 0
    /\ screen' = "choose"
    /\ ResultButton
    /\ Event("reconsider")
    /\ UNCHANGED <<prefVars, pressing, pressTimer, geoVars, logVars, now, returned>>
    /\ Commit

\* down() of the long-press PrimaryButton (line 240-249).
LongPressDown ==
    /\ Running
    /\ screen = "state"
    /\ orphanTimers < MaxOrphans
    /\ longPressedRef' = FALSE
    /\ tRef' = TRUE
    /\ Event("longPressDown")
    /\ UNCHANGED <<screen, chooseStep, prefVars, pressing, pressTimer, orphanTimers,
                   geoVars, logVars, now, returned>>
    /\ Commit

\* up() (line 251-253).
LongPressUp ==
    /\ Running
    /\ screen = "state"
    /\ tRef' = FALSE
    /\ Event("longPressUp")
    /\ UNCHANGED <<screen, chooseStep, prefVars, pressing, pressTimer, longPressedRef,
                   orphanTimers, geoVars, logVars, now, returned>>
    /\ Commit

\* A faulty onLongPress that leaves for Home.
onLongPressToHome(r) ==
    /\ randomizeAll(r)
    /\ pressing' = FALSE
    /\ screen' = "home"

\* onLongPress of line 858-863: in one batch pressing true, randomizeAll, pressing false,
\* screen "state".
onLongPress(r) ==
    /\ randomizeAll(r)
    /\ pressing' = FALSE
    /\ screen' = "state"

\* The timeout of the mounted button fires (line 244-248).
LongPressFire(r) ==
    /\ Running
    /\ screen = "state"
    /\ tRef
    /\ longPressedRef' = TRUE
    /\ onLongPress(r)
    /\ tRef' = FALSE
    /\ Event("longPressFire")
    /\ UNCHANGED <<chooseStep, pressTimer, orphanTimers, geoVars, logVars, now, returned>>
    /\ Commit

\* The timeout of a button that was unmounted meanwhile fires: its refs are gone, its
\* onLongPress closure still sets the state.
OrphanTimerFire(r) ==
    /\ Running
    /\ orphanTimers > 0
    /\ orphanTimers' = orphanTimers - 1
    /\ onLongPress(r)
    /\ Event("orphanTimerFire")
    /\ UNCHANGED <<chooseStep, pressTimer, tRef, longPressedRef, geoVars, logVars, now, returned>>
    /\ Commit

----------------------------------------------------------------------------
(* Saving an entry (line 598-614) and the write effect (line 163-169) *)

\* saveEnergy(choiceText) run from a closure c at clock time `clock`, followed by the
\* render and the effect; writeOk is FALSE when localStorage.setItem throws.
saveEnergy(choiceText, c, clock, writeOk) ==
    IF prependThrows(log)
    THEN UNCHANGED logVars
    ELSE /\ log' = prepend(makeEntry(choiceText, clock, c), log)
         /\ slot' = persistLog(log', slot, writeOk)

\* The updater threw while rendering: nothing of the batch is committed.
Crash(name) ==
    /\ phase' = "crashed"
    /\ Ran(name, FALSE)
    /\ opened' = << >>
    /\ UNCHANGED <<screen, chooseStep, prefVars, pressing, pressTimer, buttonVars, geoVars,
                   logVars, now, returned>>

----------------------------------------------------------------------------
(* Recommend screen (line 871-935) *)

\* onClick of the candidate card p (line 903-906), with Date.now() = clock.
SelectCandidate(p, writeOk, clock) ==
    /\ Running
    /\ screen = "recommend"
    /\ Len(log.items) + Len(pending) < MaxLog
    /\ clock \in now..MaxClock
    /\ IF prependThrows(log)
       THEN Crash("selectCandidate")
       ELSE   /\ saveEnergy(p.name, closure(temp, form, richness, speed), clock, writeOk)
              /\ now' = clock
              /\ screen' = "energy"
              /\ Ran("selectCandidate", writeOk)
              /\ opened' = << >>
              /\ UNCHANGED <<chooseStep, prefVars, pressing, pressTimer, buttonVars,
                             geoVars, returned>>
              /\ Commit

\* openMapsNearby (line 497-525) up to the return or the getCurrentPosition call.
\* supported is FALSE when navigator.geolocation is missing.
openMapsNearby(supported, r) ==
    /\ Running
    /\ screen = "recommend"
    /\ Len(pending) < MaxPending
    /\ Len(log.items) + Len(pending) < MaxLog
    /\   LET c == closure(temp, form, richness, speed)
             query == buildMapsQuery(c.tags, r[1], r[2], r[3])
         IN  IF ~supported
             THEN /\ geoStatus' = <<"unsupported", "you can still search the map by hand">>
                  /\ opened' = <<plainSearchUrl(query)>>
                  /\ pending' = pending
             ELSE /\ geoStatus' = <<"acquiring location">>
                  /\ opened' = << >>
                  /\ pending' = Append(pending, [query |-> query, c |-> c])
    /\ Ran("openMapsNearby", TRUE)
    /\ UNCHANGED <<screen, chooseStep, prefVars, pressing, pressTimer, buttonVars,
                   logVars, now, returned>>
    /\ Commit

remove(s, i) == SubSeq(s, 1, i - 1) \o SubSeq(s, i + 1, Len(s))

\* The success callback of request i (line 509-516), with Date.now() = clock.
GeoSuccess(i, pos, writeOk, clock) ==
    /\ Running
    /\ i \in 1..Len(pending)
    /\ clock \in now..MaxClock
    /\ IF prependThrows(log)
       THEN Crash("geoSuccess")
       ELSE   /\ geoStatus' = <<"ready">> \o pending[i].query
              /\ saveEnergy(GoOutText, pending[i].c, clock, writeOk)
              /\ now' = clock
              /\ opened' = <<buildMapsSearchUrl(pos[1], pos[2], pending[i].query)>>
              /\ pending' = remove(pending, i)
              /\ Ran("geoSuccess", writeOk)
              /\ UNCHANGED <<screen, chooseStep, prefVars, pressing, pressTimer,
                             buttonVars, returned>>
              /\ Commit

\* The error callback of request i (line 517-522).
GeoError(i, code) ==
    /\ Running
    /\ i \in 1..Len(pending)
    /\ geoStatus' = << IF code = 1 THEN "denied" ELSE "failed",
                       "you can still search the map by hand" >>
    /\ opened' = <<plainSearchUrl(pending[i].query)>>
    /\ pending' = remove(pending, i)
    /\ Ran("geoError", TRUE)
    /\ UNCHANGED <<screen, chooseStep, prefVars, pressing, pressTimer, buttonVars,
                   logVars, now, returned>>
    /\ Commit

----------------------------------------------------------------------------
(* Saved screen (line 937-964) *)

\* A faulty "view log" button that leads back to the Result screen.
ViewLogToResult ==
    /\ Running
    /\ screen = "energy"
    /\ screen' = "state"
    /\ Event("viewLog")
    /\ UNCHANGED <<chooseStep, prefVars, pressing, pressTimer, buttonVars, geoVars,
                   logVars, now, returned>>
    /\ Commit

ViewLog ==
    /\ Running
    /\ screen = "energy"
    /\ screen' = "log"
    /\ Event("viewLog")
    /\ UNCHANGED <<chooseStep, prefVars, pressing, pressTimer, buttonVars, geoVars,
                   logVars, now, returned>>
    /\ Commit

EnergyGoHome ==
    /\ Running
    /\ screen = "energy"
    /\ goHome
    /\ Event("energyGoHome")
    /\ UNCHANGED <<buttonVars, geoVars, logVars, now, returned>>
    /\ Commit

----------------------------------------------------------------------------
(* Log screen (line 966-1067) *)

\* setLog([]) of line 992, with the render and the write effect.
ClearLog(writeOk) ==
    /\ Running
    /\ screen = "log"
    /\ log' = JsArray(<< >>)
    /\ slot' = persistLog(log', slot, writeOk)
    /\ Ran("clearLog", writeOk)
    /\ opened' = << >>
    /\ UNCHANGED <<screen, chooseStep, prefVars, pressing, pressTimer, buttonVars,
                   geoVars, now, returned>>
    /\ Commit

\* "once more" (line 1061) and the empty log's button (line 1012): goHome.
LogGoHome ==
    /\ Running
    /\ screen = "log"
    /\ goHome
    /\ Event("logGoHome")
    /\ UNCHANGED <<buttonVars, geoVars, logVars, now, returned>>
    /\ Commit

\* "back to home" (line 1062): setScreen("home") without resetFlow.
LogSetHome ==
    /\ Running
    /\ screen = "log"
    /\ screen' = "home"
    /\ Event("logSetHome")
    /\ UNCHANGED <<chooseStep, prefVars, pressing, pressTimer, buttonVars, geoVars,
                   logVars, now, returned>>
    /\ Commit

----------------------------------------------------------------------------
(* Specifications *)

\* The memoized values of line 491-495 for the current render.
derived == computeTags(temp, form, richness, speed)
filteredPlaces == filterPlaces(temp, form, speed, derived.style)

\* Reading localStorage throws only where writing it throws too.
MountOutcomes == {<<TRUE, TRUE>>, <<TRUE, FALSE>>, <<FALSE, FALSE>>}

\* The richness slider is moved.
MoveSlider == \E r \in SliderInputs : setRichness(r)

\* The handlers of the flow that touch neither the log nor the map, the slider apart.
Navigate ==
    \/ OpenLog
    \/ goBack
    \/ startDecision
    \/ \E t \in TempInputs : setTemp(t)
    \/ \E f \in FormInputs : setForm(f)
    \/ \E sp \in SpeedInputs : setSpeed(sp)
    \/ ClickNext
    \/ ShowNearby
    \/ Reconsider
    \/ ViewLog
    \/ EnergyGoHome
    \/ LogGoHome
    \/ LogSetHome

\* The long-press handlers and their timeouts.
LongPress ==
    \/ handlePressDown
    \/ handlePressUp
    \/ \E r \in RandomizeDraws : PressTimerFire(r)
    \/ LongPressDown
    \/ LongPressUp
    \/ \E r \in RandomizeDraws : LongPressFire(r)
    \/ \E r \in RandomizeDraws : OrphanTimerFire(r)

\* The handlers that append to the log, clear it or open the map. writes: whether a
\* localStorage write may succeed (TRUE) or throw (FALSE); steps: by how much the clock
\* may have advanced at a reading; codes: the geolocation error codes.
LogAndMap(writes, steps, codes) ==
    \/ \E i \in CardClicks(Len(filteredPlaces)), w \in writes, d \in steps :
         SelectCandidate(filteredPlaces[i], w, now + d)
    \/ \E supported \in BOOLEAN, r \in QueryDraws : openMapsNearby(supported, r)
    \/ \E i \in 1..Len(pending), pos \in Positions, w \in writes, d \in steps :
         GeoSuccess(i, pos, w, now + d)
    \/ \E i \in 1..Len(pending), code \in codes : GeoError(i, code)
    \/ \E w \in writes : ClearLog(w)

\* The handlers that move between the screens reached without an append.
Browse ==
    \/ OpenLog
    \/ goBack
    \/ startDecision
    \/ ClickNext
    \/ ShowNearby
    \/ Reconsider
    \/ LogGoHome
    \/ LogSetHome
    \/ handlePressDown
    \/ handlePressUp
    \/ LongPressDown
    \/ LongPressUp

\* The handlers that set the preference, for every temperature, form and style the
\* user or a draw can give.
AnyPreference ==
    \/ \E t \in TempChoices : setTemp(t)
    \/ \E f \in FormChoices : setForm(f)
    \/ \E r \in SliderChoices : setRichness(r)
    \/ \E sp \in SpeedInputs : setSpeed(sp)
    \/ \E r \in RandomizeChoices : PressTimerFire(r)
    \/ \E r \in RandomizeChoices : LongPressFire(r)
    \/ \E r \in RandomizeChoices : OrphanTimerFire(r)

\* The map button, pressed with geolocation only while no request is outstanding, and
\* the callbacks that append nothing.
MapOnly ==
    \/ \E r \in QueryDraws : openMapsNearby(FALSE, r)
    \/ \E r \in QueryDraws : pending = << >> /\ openMapsNearby(TRUE, r)
    \/ \E i \in 1..Len(pending), code \in ErrorCodes : GeoError(i, code)

\* The pure functions applied to their arguments, once each run.
ApplyComputeTags ==
    /\ phase = "pure" /\ returned.fn = "none"
    /\ returned' = [fn |-> "computeTags", value |-> computeTags(temp, form, richness, speed)]
    /\ UNCHANGED <<phase, screen, chooseStep, prefVars, pressing, pressTimer, buttonVars,
                   geoVars, logVars, opened, now, lastEvent>>

ApplyFilterPlaces ==
    /\ phase = "pure" /\ returned.fn = "none"
    /\ returned' = [fn |-> "filterPlaces", value |-> filteredPlaces]
    /\ UNCHANGED <<phase, screen, chooseStep, prefVars, pressing, pressTimer, buttonVars,
                   geoVars, logVars, opened, now, lastEvent>>

ApplyBuildMapsQuery(r1, r2, r3) ==
    /\ phase = "pure" /\ returned.fn = "none"
    /\ returned' = [fn |-> "buildMapsQuery",
                    value |-> buildMapsQuery(derived.tags, r1, r2, r3)]
    /\ UNCHANGED <<phase, screen, chooseStep, prefVars, pressing, pressTimer, buttonVars,
                   geoVars, logVars, opened, now, lastEvent>>

\* Every handler, in an environment that does not fail: localStorage writes succeed
\* after startup, the clock does not advance between two readings, geolocation
\* errors are denials.
Next ==
    \/ \E m \in MountOutcomes : Mount(m[1], m[2])
    \/ Navigate
    \/ MoveSlider
    \/ LongPress
    \/ LogAndMap({TRUE}, {0}, {1})

\* The handlers other than the long-press ones and the slider, where a localStorage
\* write may throw.
NextStorage ==
    \/ \E m \in MountOutcomes : Mount(m[1], m[2])
    \/ Navigate
    \/ LogAndMap(BOOLEAN, {0}, {1})

\* The handlers other than the long-press ones, where the clock advances and
\* geolocation fails in each way.
NextClock ==
    \/ \E m \in MountOutcomes : Mount(m[1], m[2])
    \/ Navigate
    \/ MoveSlider
    \/ LogAndMap({TRUE}, ClockSteps, ErrorCodes)

\* A session that starts from a slot this program wrote, or from none.
Spec == Init /\ [][Next]_vars

SpecStorage == Init /\ [][NextStorage]_vars

SpecClock == Init /\ [][NextClock]_vars

\* The handlers other than the long-press ones, in the environment of Next.
NextAnySlot ==
    \/ \E m \in MountOutcomes : Mount(m[1], m[2])
    \/ Navigate
    \/ MoveSlider
    \/ LogAndMap({TRUE}, {0}, {1})

\* Every handler but those that append to the log or clear it, with every preference.
NextMap ==
    \/ \E m \in MountOutcomes : Mount(m[1], m[2])
    \/ Browse
    \/ AnyPreference
    \/ MapOnly

SpecMap == Init /\ [][NextMap]_vars

\* The arguments of the pure functions: any preference.
InitPure ==
    /\ phase = "pure"
    /\ screen = "home"
    /\ chooseStep = 0
    /\ temp \in TempArgs
    /\ form \in FormArgs
    /\ richness \in RichnessArgs
    /\ speed \in SpeedArgs
    /\ pressing = FALSE
    /\ pressTimer = FALSE
    /\ tRef = FALSE
    /\ longPressedRef = FALSE
    /\ orphanTimers = 0
    /\ geoStatus = << >>
    /\ log = JsArray(<< >>)
    /\ slot = SlotAbsent
    /\ pending = << >>
    /\ opened = << >>
    /\ now = 0
    /\ lastEvent = [name |-> "none", ok |-> TRUE, screen |-> "home", temp |-> NULL]
    /\ returned = [fn |-> "none", value |-> << >>]

NextPure ==
    \/ ApplyComputeTags
    \/ ApplyFilterPlaces
    \/ \E r1 \in PickDraws, r2 \in SecondPickDraws, r3 \in PickDraws :
         ApplyBuildMapsQuery(r1, r2, r3)

\* The pure functions on every preference.
SpecPure == InitPure /\ [][NextPure]_vars

\* A session that starts from a slot of any content.
SpecAnySlot == InitAnySlot /\ [][NextAnySlot]_vars

----------------------------------------------------------------------------
(* Properties *)

\* Handlers that no user action starts: timeouts and geolocation callbacks.
Callbacks == {"pressTimerFire", "longPressFire", "orphanTimerFire", "geoSuccess", "geoError"}

\* The handlers that append an entry to the log.
Appends == {"selectCandidate", "geoSuccess"}

\* C1: on the Choose screen a click on "next" moves step 0 to step 1 only if the
\* temperature is set, step 1 to step 2 only if the form is set, step 2 to the Result
\* screen only if the pace is set; when the field of the current step is unset the click
\* changes neither the screen nor the step.
C1_NextIsGated ==
    [][ClickNext =>
        /\ (chooseStep = 0 /\ temp = NULL) => (screen' = "choose" /\ chooseStep' = 0)
        /\ (chooseStep = 1 /\ form = NULL) => (screen' = "choose" /\ chooseStep' = 1)
        /\ (chooseStep = 2 /\ speed = NULL) => (screen' = "choose" /\ chooseStep' = 2)
        /\ (chooseStep = 0 /\ temp # NULL) => (screen' = "choose" /\ chooseStep' = 1)
        /\ (chooseStep = 1 /\ form # NULL) => (screen' = "choose" /\ chooseStep' = 2)
        /\ (chooseStep = 2 /\ speed # NULL) => (screen' = "state" /\ chooseStep' = 2)
        /\ chooseStep \in 0..2]_vars

\* A click on "next" at step 2 with the pace unset, temperature and form being set,
\* has left the flow at step 2.
C1_BlockedClick ==
    /\ lastEvent.name = "clickNext"
    /\ screen = "choose" /\ chooseStep = 2
    /\ temp # NULL /\ form # NULL /\ speed = NULL

\* C2: on the Recommend screen, the go-out confirmation of the map action (the
\* geolocation success callback, which opens the map) appends one entry with the
\* placeholder description to the log and moves the flow from Recommend to Saved.
C2_GoOutSavesAndMovesToSaved ==
    [][\A i \in 1..Len(pending), pos \in Positions :
        (screen = "recommend" /\ GeoSuccess(i, pos, TRUE, now)) =>
            /\ Len(log'.items) = Len(log.items) + 1
            /\ log'.items[1].choiceText = GoOutText
            /\ screen' = "energy"]_vars

\* The go-out entry has been appended from the Recommend screen and the flow is
\* still on Recommend.
C2_GoOutStaysOnRecommend ==
    /\ lastEvent.name = "geoSuccess" /\ lastEvent.screen = "recommend"
    /\ log.items[1].choiceText = GoOutText
    /\ opened # << >>
    /\ screen = "recommend"

\* C3: on the Recommend screen, selecting a candidate appends exactly one entry, whose
\* description is the candidate's name, at the front of the log, and moves the flow to
\* Saved.
C3_SelectAppendsCandidate ==
    [][lastEvent'.name = "selectCandidate" =>
        \E i \in 1..Len(filteredPlaces) :
            /\ SelectCandidate(filteredPlaces[i], TRUE, now)
            /\ Len(log'.items) = Len(log.items) + 1
            /\ log'.items[1].choiceText = filteredPlaces[i].name
            /\ SubSeq(log'.items, 2, Len(log'.items)) = log.items
            /\ screen = "recommend" /\ screen' = "energy"]_vars

\* A candidate has been selected while the log held an entry: its name is in front.
C3_CandidateSaved ==
    /\ lastEvent.name = "selectCandidate" /\ lastEvent.screen = "recommend"
    /\ screen = "energy"
    /\ Len(log.items) = 2
    /\ log.items[1].choiceText \in PlaceNames

\* C4, as stated: from the Saved screen a user action leads only to Log or Home.
C4_SavedLeadsToLogOrHome ==
    [][(screen = "energy" /\ lastEvent'.name \notin Callbacks) =>
        screen' \in {"log", "home"}]_vars

\* C4, amended: from the Saved screen a user action leads to Log, to Home or, by the
\* top bar's back button only, to Recommend; never to Result or Choose.
C4_SavedLeadsToLogHomeOrBack ==
    [][(screen = "energy" /\ lastEvent'.name \notin Callbacks) =>
        /\ screen' \in {"log", "home", "recommend"}
        /\ screen' = "recommend" => goBack]_vars

\* The back button has been used on the Saved screen.
C4_BackFromSaved ==
    /\ lastEvent.name = "goBack" /\ lastEvent.screen = "energy"
    /\ screen = "recommend"

\* C5: "start decision" on Home leads to Choose at step 0 with the preference at its
\* defaults (temperature, form and pace unset, richness 0.5), whatever they were before.
C5_StartResets ==
    [][startDecision =>
        /\ screen' = "choose" /\ chooseStep' = 0
        /\ temp' = NULL /\ form' = NULL /\ speed' = NULL
        /\ richness' = 50]_vars

\* A decision has been started from a Home screen that still held a temperature.
C5_StartedOverLeftovers ==
    /\ lastEvent.name = "startDecision" /\ lastEvent.temp # NULL
    /\ screen = "choose" /\ chooseStep = 0
    /\ temp = NULL

\* C6: when the timer of a long press on Home fires, the flow moves in that step to
\* the Result screen, with temperature, form and pace set and richness in [0,1].
C6_LongPressRandomizes ==
    [][\A r \in RandomizeDraws : PressTimerFire(r) =>
        /\ screen' = "state"
        /\ temp' \in {"hot", "cold"}
        /\ form' \in {"soup", "dry"}
        /\ speed' \in {"fast", "sit"}
        /\ richness' \in 0..100]_vars

\* The timer of a long press has fired on Home.
C6_LongPressCompleted ==
    /\ lastEvent.name = "pressTimerFire" /\ lastEvent.screen = "home"
    /\ lastEvent.temp = NULL
    /\ screen = "state"
    /\ ~pressTimer

\* C7: every step that changes the log either appends (the new entry at index 0, the
\* earlier entries unchanged behind it) or is "clear", which leaves it empty; no other
\* handler changes the log.
C7_NewestFirst ==
    [][phase = "running" =>
        \/ log' = log
        \/ /\ lastEvent'.name \in Appends
           /\ log'.type = "array"
           /\ Len(log'.items) = Len(log.items) + 1
           /\ SubSeq(log'.items, 2, Len(log'.items)) = log.items
        \/ /\ lastEvent'.name = "clearLog"
           /\ log' = [type |-> "array", items |-> << >>]]_vars

\* A candidate was saved, then a go-out entry: the log reads go-out entry, candidate.
C7_TwoAppends ==
    /\ lastEvent.name = "geoSuccess"
    /\ Len(log.items) = 2
    /\ log.items[1].choiceText = GoOutText /\ log.items[1].at >= 0
    /\ log.items[2].choiceText \in PlaceNames /\ log.items[2].at >= 0

\* A slot that holds a well-formed sequence of entries.
WellFormedSlot(s) ==
    /\ s.kind = "json"
    /\ s.value.type = "array"
    /\ \A i \in 1..Len(s.value.items) : s.value.items[i] # JunkItem

\* C8: loading the log at startup never raises and, when the slot is missing,
\* unreadable or not a well-formed sequence of entries, leaves the empty log in memory.
C8_LoadFallsBackToEmpty ==
    [][\A m \in MountOutcomes : Mount(m[1], m[2]) =>
        /\ phase' = "running"
        /\ (~m[1] \/ ~WellFormedSlot(slot)) => log' = JsArray(<< >>)]_vars

\* The first render has thrown on what the slot held.
C8_StartupCrashed ==
    /\ lastEvent.name = "mount"
    /\ phase = "crashed"
    /\ log.type = "null"

\* C9: after an append or a clear, a write that succeeds leaves the slot holding exactly
\* the in-memory log; a write that fails is swallowed: the slot keeps its content, the
\* app keeps running and the log in memory has the append or the clear.
C9_SlotIsWholeLog ==
    [][(phase = "running" /\ lastEvent'.name \in Appends \cup {"clearLog"}) =>
        /\ phase' = "running"
        /\ lastEvent'.ok => slot' = [kind |-> "json", value |-> log']
        /\ ~lastEvent'.ok => slot' = slot
        /\ lastEvent'.name \in Appends =>
              /\ Len(log'.items) = Len(log.items) + 1
              /\ SubSeq(log'.items, 2, Len(log'.items)) = log.items
        /\ lastEvent'.name = "clearLog" => log'.items = << >>]_vars

\* A write after an append has put the whole log of two entries into the slot; then
\* the write after a clear has failed: the log in memory is empty, the slot is as it was.
C9_ClearNotWritten ==
    /\ lastEvent.name = "clearLog" /\ ~lastEvent.ok
    /\ phase = "running"
    /\ log.items = << >>
    /\ slot.kind = "json" /\ Len(slot.value.items) = 2
    /\ slot.value.items[1].at >= 0

\* C10: the identifiers of the entries in the log are pairwise distinct.
C10_IdsDistinct ==
    log.type = "array" =>
        \A i, j \in 1..Len(log.items) : i # j => log.items[i].id # log.items[j].id

\* Two geolocation requests have succeeded at the same clock reading: their two entries
\* share one identifier.
C10_SameMillisecond ==
    /\ phase = "running"
    /\ lastEvent.name = "geoSuccess"
    /\ Len(log.items) >= 2
    /\ log.items[1].choiceText = GoOutText /\ log.items[2].choiceText = GoOutText
    /\ log.items[1].id = log.items[2].id

\* C11: the tags of every entry are the tags derived from the preference as it is when
\* the entry is appended, also for an entry of the geolocation success callback.
C11_TagsAreCurrent ==
    [][lastEvent'.name \in Appends =>
        log'.items[1].tags = computeTags(temp', form', richness', speed').tags]_vars

\* The success callback has appended an entry whose tags are not those of the
\* preference at that moment.
C11_StaleTags ==
    /\ lastEvent.name = "geoSuccess"
    /\ log.items[1].choiceText = GoOutText
    /\ log.items[1].tags # computeTags(temp, form, richness, speed).tags

\* C12: at most one geolocation request is outstanding at any time.
C12_OneOutstandingRequest == Len(pending) <= 1

\* The map button has started a second request while the first has not resolved.
C12_SecondRequest ==
    /\ lastEvent.name = "openMapsNearby"
    /\ Len(pending) = 2

\* C13: a map-open action resolves as unsupported, success, denied or failed, each
\* request once; at that step exactly one map search is opened and the status is set
\* to a text for that outcome: with the coordinate anchor on success only, without it
\* and with a notice of the cause on the three others; the status is not left at
\* "acquiring location" when no request is outstanding any more.
C13_MapOutcomes ==
    [][/\ (lastEvent'.name = "openMapsNearby" /\ pending' = pending) =>
              /\ Len(opened') = 1 /\ opened'[1].anchor = << >>
              /\ Len(geoStatus') = 2 /\ geoStatus'[1] = "unsupported"
       /\ (lastEvent'.name = "openMapsNearby" /\ pending' # pending) =>
              /\ opened' = << >>
              /\ Len(pending') = Len(pending) + 1
       /\ lastEvent'.name = "geoSuccess" =>
              /\ Len(opened') = 1 /\ Len(opened'[1].anchor) = 3
              /\ Len(geoStatus') >= 2 /\ geoStatus'[1] = "ready"
              /\ Len(pending') = Len(pending) - 1
       /\ \A i \in 1..Len(pending), code \in ErrorCodes : GeoError(i, code) =>
              /\ Len(opened') = 1 /\ opened'[1].anchor = << >>
              /\ Len(geoStatus') = 2
              /\ geoStatus'[1] = (IF code = 1 THEN "denied" ELSE "failed")
              /\ Len(pending') = Len(pending) - 1
       /\ lastEvent'.name \notin {"openMapsNearby", "geoSuccess", "geoError"} =>
              opened' = << >>
       /\ pending' = << >> => geoStatus' # <<"acquiring location">>]_vars

\* A request has failed for a cause other than denial: the map is opened without
\* coordinates and the status tells the failure.
C13_FailedOutcome ==
    /\ lastEvent.name = "geoError"
    /\ geoStatus[1] = "failed"
    /\ Len(opened) = 1 /\ opened[1].anchor = << >>
    /\ pending = << >>

\* C14: the derived tags are the temperature label (absent iff the temperature is
\* unset), the form label (absent iff the form is unset), the style label (always) and
\* the pace label (absent iff the pace is unset), in that order; the style is rich iff
\* richness >= 0.55.
C14_TagsOfPreference ==
    returned.fn = "computeTags" =>
        /\ returned.value.style = (IF richness >= 55 THEN "rich" ELSE "light")
        /\ returned.value.tags =
              (IF temp = NULL THEN << >>
               ELSE IF temp = "hot" THEN <<"hot food">> ELSE <<"cold food">>)
              \o (IF form = NULL THEN << >>
                  ELSE IF form = "soup" THEN <<"soupy">> ELSE <<"dry">>)
              \o (IF richness >= 55 THEN <<"rich taste">> ELSE <<"light taste">>)
              \o (IF speed = NULL THEN << >>
                  ELSE IF speed = "fast" THEN <<"quick">> ELSE <<"sit down">>)

\* hot, soup, fast at the default richness 0.5 has given hot, soup, light, fast.
C14_DefaultRichnessIsLight ==
    /\ returned.fn = "computeTags"
    /\ temp = "hot" /\ form = "soup" /\ speed = "fast" /\ richness = 50
    /\ returned.value.tags = <<"hot food", "soupy", "light taste", "quick">>

\* Whether candidate p matches every set field of the preference and the style.
MatchesAll(p) ==
    /\ (temp # NULL => p.type = temp)
    /\ (form # NULL => p.form = form)
    /\ (speed # NULL => p.speed = speed)
    /\ p.style = (IF richness >= 55 THEN "rich" ELSE "light")

MatchesTemp(p) == temp # NULL => p.type = temp

\* The positions in the store of the candidates the filter has to return.
ExpectedPlaces ==
    LET all == {i \in 1..Len(mockPlaces) : MatchesAll(mockPlaces[i])}
    IN  IF all # {} THEN all ELSE {i \in 1..Len(mockPlaces) : MatchesTemp(mockPlaces[i])}

\* C15: the filter returns, in store order and at most 8, the candidates matching every
\* set field and the style when there is one, else the candidates matching the
\* temperature; the result is never empty and holds only candidates of the set
\* temperature.
C15_FilterWithFallback ==
    returned.fn = "filterPlaces" =>
        LET res == returned.value
            pos(i) == CHOOSE k \in 1..Len(mockPlaces) : mockPlaces[k].id = res[i].id
        IN  /\ Len(res) > 0 /\ Len(res) <= 8
            /\ Len(res) = Min(8, Cardinality(ExpectedPlaces))
            /\ \A i \in 1..Len(res) :
                  /\ \E k \in ExpectedPlaces : mockPlaces[k].id = res[i].id
                  /\ res[i].name = mockPlaces[pos(i)].name
                  /\ temp # NULL => res[i].type = temp
            /\ \A i, j \in 1..Len(res) : i < j => pos(i) < pos(j)
            /\ \A k \in ExpectedPlaces :
                  Cardinality({m \in ExpectedPlaces : m <= k}) <= 8 =>
                      \E i \in 1..Len(res) : res[i].id = mockPlaces[k].id

\* No candidate is cold and soupy: the filter has fallen back to the two cold ones.
C15_FellBack ==
    /\ returned.fn = "filterPlaces"
    /\ temp = "cold" /\ form = "soup"
    /\ Len(returned.value) = 2
    /\ returned.value[1].id = "p3" /\ returned.value[2].id = "p8"

\* The keywords of the flag combinations that fire for the preference, or the generic
\* ones when none fires.
KeywordsOfPreference ==
    LET rich == richness >= 55
        k1 == IF rich /\ form = "soup" /\ temp = "hot"
              THEN {"spicy hotpot", "beef noodles", "ramen", "hot and sour soup"} ELSE {}
        k2 == IF ~rich /\ form = "soup" /\ temp = "hot"
              THEN {"clear soup noodles", "congee", "miso soup", "udon"} ELSE {}
        k3 == IF rich /\ form = "dry" /\ temp = "hot"
              THEN {"braised pork rice", "curry rice", "rice bowl", "fried chicken"} ELSE {}
        k4 == IF ~rich /\ form = "dry"
              THEN {"salad", "healthy lunch box", "pho", "cold noodles dish"} ELSE {}
        k5 == IF temp = "cold" THEN {"salad", "cold noodles dish", "sashimi"} ELSE {}
        fired == k1 \cup k2 \cup k3 \cup k4 \cup k5
    IN  IF fired = {} THEN {"restaurant", "snacks", "bento", "noodles"} ELSE fired

\* C16: the query is one keyword, or two distinct keywords with a single space between
\* them, each from the pool of the preference's tags.
C16_QueryOfOneOrTwoKeywords ==
    returned.fn = "buildMapsQuery" =>
        LET q == returned.value
        IN  \/ Len(q) = 1 /\ q[1] \in KeywordsOfPreference
            \/ /\ Len(q) = 3
               /\ q[1] \in KeywordsOfPreference /\ q[3] \in KeywordsOfPreference
               /\ q[2] = " "
               /\ q[1] # q[3]

\* Two combinations fire for cold, dry, light: the query has a keyword of each.
C16_TwoKeywords ==
    /\ returned.fn = "buildMapsQuery"
    /\ temp = "cold" /\ form = "dry" /\ richness < 55
    /\ returned.value = <<"healthy lunch box", " ", "sashimi">>

\* The timeouts of the long-press gestures.
LongPressTimers == {"pressTimerFire", "longPressFire", "orphanTimerFire"}

\* C17: whenever a long-press timer fires, the screen at that moment is Home or Result.
C17_TimerFiresOnHomeOrResult ==
    [][lastEvent'.name \in LongPressTimers => screen \in {"home", "state"}]_vars

\* The timer of a press on the Result screen's button has fired on Recommend and has
\* taken the flow back to Result.
C17_FiredOnRecommend ==
    /\ lastEvent.name = "orphanTimerFire" /\ lastEvent.screen = "recommend"
    /\ screen = "state"

\* C18: "reconsider" on Result moves to Choose at step 0 and keeps the preference;
\* "randomize" on Result stays on Result; "show nearby" moves to Recommend and "back" on
\* Recommend returns to Result, both keeping the preference.
C18_ResultActions ==
    [][/\ Reconsider =>
              /\ screen' = "choose" /\ chooseStep' = 0
              /\ <<temp', form', richness', speed'>> = <<temp, form, richness, speed>>
       /\ lastEvent'.name = "longPressFire" =>
              screen = "state" /\ screen' = "state"
       /\ ShowNearby =>
              /\ screen' = "recommend"
              /\ <<temp', form', richness', speed'>> = <<temp, form, richness, speed>>
       /\ (goBack /\ screen = "recommend") =>
              /\ screen' = "state"
              /\ <<temp', form', richness', speed'>> = <<temp, form, richness, speed>>]_vars

\* The long press on Result has randomized the preference and the flow is on Result.
C18_RandomizedOnResult ==
    /\ lastEvent.name = "longPressFire" /\ lastEvent.screen = "state"
    /\ screen = "state"
    /\ longPressedRef
    /\ temp # NULL /\ form # NULL /\ speed # NULL

\* C19: on the Result, Recommend and Saved screens the temperature, the form and the
\* pace are all set.
C19_PreferenceSetPastChoose ==
    screen \in {"state", "recommend", "energy"} =>
        temp # NULL /\ form # NULL /\ speed # NULL

\* A Home long-press timer has fired late, on the Log screen, and the flow is on Result
\* with a full preference.
C19_LateTimer ==
    /\ lastEvent.name = "pressTimerFire" /\ lastEvent.screen = "log"
    /\ screen = "state"
    /\ temp # NULL /\ form # NULL /\ speed # NULL

\* C20: every entry of the log is consistent in itself: its tags are the tags derived
\* from its own signature fields, its warmth is clamp(0.35 + 0.65 * richness, 0, 1) of
\* its own richness.
C20_EntryConsistent ==
    log.type = "array" =>
        \A i \in 1..Len(log.items) :
            LET e == log.items[i]
            IN  /\ e.tags = computeTags(e.sig.temp, e.sig.form, e.sig.richness, e.sig.speed).tags
                /\ e.sig.warmth = Min(10000, Max(0, 3500 + 65 * e.sig.richness))

\* The success callback has appended an entry after the richness was changed: the
\* entry holds the earlier richness and the tags of that richness.
C20_ConsistentStaleEntry ==
    /\ lastEvent.name = "geoSuccess"
    /\ log.items[1].sig.richness # richness
    /\ log.items[1].tags # computeTags(temp, form, richness, speed).tags
    /\ log.items[1].tags = computeTags(log.items[1].sig.temp, log.items[1].sig.form,
                                       log.items[1].sig.richness, log.items[1].sig.speed).tags

\* The keywords of the generic fallback pool.
GenericKeywords == {"restaurant", "snacks", "bento", "noodles"}

\* Some flag combination fires for the preference on the screen.
FiresCombination ==
    LET rich == richness >= 55
    IN  \/ rich /\ form = "soup" /\ temp = "hot"
        \/ ~rich /\ form = "soup" /\ temp = "hot"
        \/ rich /\ form = "dry" /\ temp = "hot"
        \/ ~rich /\ form = "dry"
        \/ temp = "cold"

\* The query is made of generic keywords.
UsesGeneric(q) == \E i \in 1..Len(q) : q[i] \in GenericKeywords

\* C21: whenever the map action builds a query, the preference on the screen fires at
\* least one flag combination, and the query built (opened at once, or kept by the
\* location request) holds no keyword of the generic fallback pool.
C21_GenericPoolNeverUsed ==
    [][lastEvent'.name = "openMapsNearby" =>
         /\ screen = "recommend"
         /\ temp # NULL /\ form # NULL
         /\ FiresCombination
         /\ IF Len(pending') > Len(pending)
            THEN ~UsesGeneric(pending'[Len(pending')].query)
            ELSE Len(opened') = 1 /\ ~UsesGeneric(opened'[1].q)]_vars

\* The map action has built a query for cold, soupy, rich food and opened it.
C21_ColdSoupQuery ==
    /\ lastEvent.name = "openMapsNearby"
    /\ screen = "recommend"
    /\ temp = "cold" /\ form = "soup" /\ richness >= 55
    /\ Len(opened) = 1
    /\ opened[1].q = <<"uri", "sashimi", " ", "salad">>

====
